---- MODULE Spec2Model ----
(***************************************************************************)
(* Model of screenshot_and_mail.py: one run of main(): time gate,          *)
(* validation of the SMTP settings, take_screenshot(), build_email(),      *)
(* the optional debug.eml copy and send_email() with its retry loop.       *)
(* Strings that the program converts (lower(), int(), == "1") are          *)
(* sequences of one-character strings, so the conversions are computed.    *)
(* The browser and the SMTP server are the environment: every call into    *)
(* them either returns or raises, chosen nondeterministically.             *)
(***************************************************************************)
EXTENDS Integers, Sequences, FiniteSets, TLC

VARIABLES
    env,            \* the process environment read at l.45-60: name -> [set, val]
    now,            \* now_local (l.187): [hour, minute] in LOCAL_TZ
    page,           \* the labels (positions in the list) for which btn.count() > 0
    pc,             \* the position of the run
    exit_status,    \* the exit status of the process, -1 while it runs
    exit_msg,       \* what ended the run, with last_err for an exhausted delivery
    calls,          \* how often each stage was entered
    missing_logged, \* the names in the "variabili SMTP mancanti" log line
    browser,        \* [running, launches] of the chromium of take_screenshot
    capture_err,    \* the step of take_screenshot whose exception left it
    li,             \* position of label in the for loop of l.168
    scanned,        \* the labels whose locator was counted, in order
    clicks,         \* the labels whose button got a click() call, in order
    consent,        \* outcome of the cookie-banner block: dismissed, not_found, failed
    shot_saved,     \* page.screenshot wrote OUT
    eml_written,    \* debug.eml was written
    mode,           \* send_email.mode
    i,              \* send_email.i
    delay,          \* send_email.delay
    last_err,       \* send_email.last_err: [attempt, step]
    slept,          \* the arguments of time.sleep, in order
    conn,           \* the server object of the running attempt: [open, tls, trace]
    attempt_modes,  \* the mode of every attempt started
    delivered,      \* messages accepted by the server (send_message returned)
    sent_ok         \* send_email returned at l.137

vars == <<env, now, page, pc, exit_status, exit_msg, calls, missing_logged,
          browser, capture_err, li, scanned, clicks, consent, shot_saved,
          eml_written, mode, i, delay, last_err, slept, conn, attempt_modes,
          delivered, sent_ok>>

capVars == <<browser, capture_err, li, scanned, clicks, consent, shot_saved>>
sendVars == <<mode, i, delay, last_err, slept, conn, attempt_modes, delivered, sent_ok>>
mainVars == <<exit_status, exit_msg, calls, missing_logged, eml_written>>

----------------------------------------------------------------------------
(* Strings *)

s_empty == <<>>
s_0 == <<"0">>
s_1 == <<"1">>
s_x == <<"x">>
s_ssl == <<"s", "s", "l">>
s_SSL == <<"S", "S", "L">>
s_starttls == <<"s", "t", "a", "r", "t", "t", "l", "s">>
s_STARTTLS == <<"S", "T", "A", "R", "T", "T", "L", "S">>
s_tls == <<"t", "l", "s">>
s_25 == <<"2", "5">>
s_465 == <<"4", "6", "5">>
s_587 == <<"5", "8", "7">>
s_2465 == <<"2", "4", "6", "5">>

\* str.lower() on one character
LowerChar(c) ==
    CASE c = "S" -> "s"
      [] c = "T" -> "t"
      [] c = "A" -> "a"
      [] c = "R" -> "r"
      [] c = "L" -> "l"
      [] OTHER -> c

\* str.lower()
Lower(s) == [k \in 1..Len(s) |-> LowerChar(s[k])]

DigitVal(c) ==
    CASE c = "0" -> 0 [] c = "1" -> 1 [] c = "2" -> 2 [] c = "3" -> 3
      [] c = "4" -> 4 [] c = "5" -> 5 [] c = "6" -> 6 [] c = "7" -> 7
      [] c = "8" -> 8 [] c = "9" -> 9

RECURSIVE ToInt(_)
\* int() on a string of decimal digits
ToInt(s) ==
    IF Len(s) = 0 THEN 0
    ELSE 10 * ToInt(SubSeq(s, 1, Len(s) - 1)) + DigitVal(s[Len(s)])

----------------------------------------------------------------------------
(* The environment and the configuration read from it *)

Unset == [set |-> FALSE, val |-> <<>>]
Val(s) == [set |-> TRUE, val |-> s]

EnvNames == {"FORCE_SEND", "SAVE_EML", "SMTP_HOST", "SMTP_PORT", "SMTP_USER",
             "SMTP_PASS", "MAIL_TO", "SMTP_SECURE"}

\* os.getenv(name, default)
Getenv(name, default) == IF env[name].set THEN env[name].val ELSE default

FORCE_SEND == Getenv("FORCE_SEND", s_0) = s_1
SAVE_EML == Getenv("SAVE_EML", s_0) = s_1
SMTP_PORT == ToInt(Getenv("SMTP_PORT", s_587))
SMTP_SECURE == Lower(Getenv("SMTP_SECURE", s_empty))

TargetHour == 8
ImplicitTlsPort == 465
attempts == 3
InitialDelay == 3

required_names == <<"SMTP_HOST", "SMTP_USER", "SMTP_PASS", "MAIL_TO">>
\* os.getenv(name): None when unset
required_vals == [k \in 1..Len(required_names) |-> env[required_names[k]]]

\* v in (None, "") checks only for None
IsMissingNoneOnly(v) == ~v.set

\* v in (None, "")
IsMissing(v) == ~v.set \/ v.val = s_empty

RECURSIVE MissingFrom(_)
\* the names n of zip(required_names, required_vals) whose v is missing, in order
MissingFrom(k) ==
    IF k > Len(required_names) THEN <<>>
    ELSE (IF IsMissing(required_vals[k]) THEN <<required_names[k]>> ELSE <<>>)
         \o MissingFrom(k + 1)

missing == MissingFrom(1)

\* the gate ignores FORCE_SEND
ShouldRunHourOnly == now.hour = TargetHour

\* not (not FORCE_SEND and now_local.hour != 8)
ShouldRun == ~(~FORCE_SEND /\ now.hour # TargetHour)

\* the port is looked at before the explicit setting
ResolveModePortFirst ==
    IF SMTP_PORT = ImplicitTlsPort THEN "ssl"
    ELSE IF SMTP_SECURE = s_starttls \/ SMTP_SECURE = s_ssl
         THEN (IF SMTP_SECURE = s_ssl THEN "ssl" ELSE "starttls")
         ELSE "starttls"

\* send_email: the transport mode
ResolveMode ==
    IF SMTP_SECURE = s_ssl THEN "ssl"
    ELSE IF SMTP_SECURE = s_starttls THEN "starttls"
    ELSE IF SMTP_PORT = ImplicitTlsPort THEN "ssl"
    ELSE "starttls"

\* the cookie-banner labels, by position in the list
labels == <<"Accept all", "Accept All", "I agree", "OK",
            "Agree", "Consent", "Accetta", "Accetta tutto">>

NoConn == [open |-> FALSE, tls |-> FALSE, trace |-> <<>>]
NoErr == [attempt |-> 0, step |-> "none"]
NoMsg == [kind |-> "none", err |-> NoErr]

----------------------------------------------------------------------------
(* Initial states *)

EnvOf(f, s, h, u, p, t, po, se) ==
    [n \in EnvNames |->
        CASE n = "FORCE_SEND" -> f
          [] n = "SAVE_EML" -> s
          [] n = "SMTP_HOST" -> h
          [] n = "SMTP_USER" -> u
          [] n = "SMTP_PASS" -> p
          [] n = "MAIL_TO" -> t
          [] n = "SMTP_PORT" -> po
          [] n = "SMTP_SECURE" -> se]

FlagVals == {Unset, Val(s_0), Val(s_1)}
ReqVals == {Unset, Val(s_empty), Val(s_x)}
PortVals == {Unset, Val(s_25), Val(s_465), Val(s_587), Val(s_2465)}
SecureVals == {Unset, Val(s_empty), Val(s_ssl), Val(s_SSL), Val(s_starttls),
               Val(s_STARTTLS), Val(s_tls)}
Hours == 0..23
Minutes == {0, 30, 59}
Times == [hour : Hours, minute : Minutes]
Pages == SUBSET (1..Len(labels))

InitRest ==
    /\ pc = "main"
    /\ exit_status = -1
    /\ exit_msg = NoMsg
    /\ calls = [validate |-> 0, capture |-> 0, compose |-> 0, deliver |-> 0]
    /\ missing_logged = <<>>
    /\ browser = [running |-> FALSE, launches |-> 0]
    /\ capture_err = "none"
    /\ li = 0
    /\ scanned = <<>>
    /\ clicks = <<>>
    /\ consent = "none"
    /\ shot_saved = FALSE
    /\ eml_written = FALSE
    /\ mode = "unresolved"
    /\ i = 0
    /\ delay = 0
    /\ last_err = NoErr
    /\ slept = <<>>
    /\ conn = NoConn
    /\ attempt_modes = <<>>
    /\ delivered = 0
    /\ sent_ok = FALSE

\* every hour, every value of FORCE_SEND; the settings complete
InitGate ==
    /\ env \in {EnvOf(f, Unset, Val(s_x), Val(s_x), Val(s_x), Val(s_x), Unset, Unset) :
                  f \in FlagVals}
    /\ now \in Times
    /\ page = {}
    /\ InitRest

\* every combination of unset, empty and given required settings
InitConfig ==
    /\ env \in {EnvOf(f, Unset, h, u, p, t, Unset, Unset) :
                  f \in {Unset, Val(s_1)}, h \in ReqVals, u \in ReqVals,
                  p \in ReqVals, t \in ReqVals}
    /\ now \in {[hour |-> 8, minute |-> 0], [hour |-> 15, minute |-> 30]}
    /\ page \in {{}, {4}}
    /\ InitRest

\* every cookie banner
InitCapture ==
    /\ env \in {EnvOf(Val(s_1), s, Val(s_x), Val(s_x), Val(s_x), Val(s_x), Unset, Unset) :
                  s \in {Unset}}
    /\ now = [hour |-> 15, minute |-> 30]
    /\ page \in Pages
    /\ InitRest

\* every port, every SMTP_SECURE, every SAVE_EML
InitDelivery ==
    /\ env \in {EnvOf(Unset, s, Val(s_x), Val(s_x), Val(s_x), Val(s_x), po, se) :
                  s \in FlagVals, po \in PortVals, se \in SecureVals}
    /\ now = [hour |-> 8, minute |-> 0]
    /\ page = {4}
    /\ InitRest

Init == InitGate \/ InitConfig \/ InitCapture \/ InitDelivery

----------------------------------------------------------------------------
(* main: gate and validation *)

Bump(c, k) == [c EXCEPT ![k] = @ + 1]

\* main, the gate on the local hour
MainGate ==
    /\ pc = "main"
    /\ IF ~ShouldRun
       THEN /\ pc' = "exit"
            /\ exit_status' = 0
       ELSE /\ pc' = "check"
            /\ UNCHANGED exit_status
    /\ UNCHANGED <<env, now, page, exit_msg, calls, missing_logged, eml_written,
                   capVars, sendVars>>

\* main, the check of the required SMTP settings
MainCheckConfig ==
    /\ pc = "check"
    /\ calls' = Bump(calls, "validate")
    /\ IF \E k \in 1..Len(required_vals) : IsMissing(required_vals[k])
       THEN /\ missing_logged' = missing
            /\ exit_status' = 1
            /\ exit_msg' = [kind |-> "config", err |-> NoErr]
            /\ pc' = "exit"
       ELSE /\ pc' = "ts_launch"
            /\ UNCHANGED <<missing_logged, exit_status, exit_msg>>
    /\ UNCHANGED <<env, now, page, eml_written, capVars, sendVars>>

----------------------------------------------------------------------------
(* take_screenshot *)

\* leaving the async with block does not stop a browser that is still running
BrowserAfterScopeLeak == browser

\* leaving "async with async_playwright()" stops the driver and its browser
BrowserAfterScope == [browser EXCEPT !.running = FALSE]

\* main catches the capture error and carries on with the next stage
CaptureRaiseSwallowed(step) ==
    /\ browser' = BrowserAfterScope
    /\ capture_err' = step
    /\ exit_status' = exit_status
    /\ exit_msg' = exit_msg
    /\ pc' = "compose"

\* an exception leaves take_screenshot through the async with block and,
\* uncaught in main, ends the process with a traceback and status 1
CaptureRaise(step) ==
    /\ browser' = BrowserAfterScope
    /\ capture_err' = step
    /\ exit_status' = 1
    /\ exit_msg' = [kind |-> "capture", err |-> NoErr]
    /\ pc' = "exit"

\* launch, new_context, new_page
TsLaunch ==
    /\ pc = "ts_launch"
    /\ calls' = Bump(calls, "capture")
    /\ \E r \in {"ok", "launch_failed", "context_failed"} :
         CASE r = "ok" ->
                /\ browser' = [running |-> TRUE, launches |-> browser.launches + 1]
                /\ pc' = "ts_goto"
                /\ UNCHANGED <<capture_err, exit_status, exit_msg>>
           [] r = "launch_failed" ->
                /\ browser' = browser
                /\ capture_err' = "launch"
                /\ exit_status' = 1
                /\ exit_msg' = [kind |-> "capture", err |-> NoErr]
                /\ pc' = "exit"
           [] r = "context_failed" ->
                /\ browser' = [BrowserAfterScope EXCEPT !.launches = @ + 1]
                /\ capture_err' = "context"
                /\ exit_status' = 1
                /\ exit_msg' = [kind |-> "capture", err |-> NoErr]
                /\ pc' = "exit"
    /\ UNCHANGED <<env, now, page, missing_logged, eml_written, li, scanned, clicks,
                   consent, shot_saved, sendVars>>

\* page.goto(URL, wait_until="networkidle", timeout=120_000)
TsGoto ==
    /\ pc = "ts_goto"
    /\ \E ok \in BOOLEAN :
         IF ok
         THEN /\ pc' = "ts_scan"
              /\ li' = 1
              /\ UNCHANGED <<browser, capture_err, exit_status, exit_msg>>
         ELSE /\ CaptureRaise("goto")
              /\ UNCHANGED li
    /\ UNCHANGED <<env, now, page, calls, missing_logged, eml_written, scanned, clicks,
                   consent, shot_saved, sendVars>>

\* the loop over the labels has no break after the click
ScanNextNoBreak(l, clicked) ==
    IF l < Len(labels)
    THEN [pc |-> "ts_scan", li |-> l + 1, consent |-> IF clicked THEN "dismissed" ELSE consent]
    ELSE [pc |-> "ts_wait", li |-> l,
          consent |-> IF clicked \/ consent = "dismissed" THEN "dismissed" ELSE "not_found"]

\* for label in labels: ... click ... break
ScanNext(l, clicked) ==
    IF clicked
    THEN [pc |-> "ts_wait", li |-> l, consent |-> "dismissed"]
    ELSE IF l < Len(labels)
         THEN [pc |-> "ts_scan", li |-> l + 1, consent |-> consent]
         ELSE [pc |-> "ts_wait", li |-> l, consent |-> "not_found"]

\* btn = page.get_by_role(...); await btn.count() > 0
TsScan ==
    /\ pc = "ts_scan"
    /\ scanned' = Append(scanned, li)
    /\ \E ok \in BOOLEAN :
         IF ok
         THEN IF li \in page
              THEN /\ pc' = "ts_click"
                   /\ UNCHANGED <<li, consent>>
              ELSE /\ pc' = ScanNext(li, FALSE).pc
                   /\ li' = ScanNext(li, FALSE).li
                   /\ consent' = ScanNext(li, FALSE).consent
         ELSE /\ consent' = "failed"
              /\ pc' = "ts_wait"
              /\ UNCHANGED li
    /\ UNCHANGED <<env, now, page, mainVars, browser, capture_err, clicks, shot_saved,
                   sendVars>>

\* await btn.first.click()
TsClick ==
    /\ pc = "ts_click"
    /\ clicks' = Append(clicks, li)
    /\ \E ok \in BOOLEAN :
         IF ok
         THEN /\ pc' = ScanNext(li, TRUE).pc
              /\ li' = ScanNext(li, TRUE).li
              /\ consent' = ScanNext(li, TRUE).consent
         ELSE /\ consent' = "failed"
              /\ pc' = "ts_wait"
              /\ UNCHANGED li
    /\ UNCHANGED <<env, now, page, mainVars, browser, capture_err, scanned, shot_saved,
                   sendVars>>

\* page.wait_for_timeout(6000)
TsSettle ==
    /\ pc = "ts_wait"
    /\ \E ok \in BOOLEAN :
         IF ok
         THEN /\ pc' = "ts_shot"
              /\ UNCHANGED <<browser, capture_err, exit_status, exit_msg>>
         ELSE CaptureRaise("settle")
    /\ UNCHANGED <<env, now, page, calls, missing_logged, eml_written, li, scanned,
                   clicks, consent, shot_saved, sendVars>>

\* page.screenshot(path=OUT, full_page=True)
TsScreenshot ==
    /\ pc = "ts_shot"
    /\ \E ok \in BOOLEAN :
         IF ok
         THEN /\ pc' = "ts_close"
              /\ shot_saved' = TRUE
              /\ UNCHANGED <<browser, capture_err, exit_status, exit_msg>>
         ELSE /\ CaptureRaise("screenshot")
              /\ UNCHANGED shot_saved
    /\ UNCHANGED <<env, now, page, calls, missing_logged, eml_written, li, scanned,
                   clicks, consent, sendVars>>

\* browser.close(), the log line, and the end of the async with block
TsClose ==
    /\ pc = "ts_close"
    /\ \E ok \in BOOLEAN :
         IF ok
         THEN /\ pc' = "compose"
              /\ browser' = [browser EXCEPT !.running = FALSE]
              /\ UNCHANGED <<capture_err, exit_status, exit_msg>>
         ELSE CaptureRaise("close")
    /\ UNCHANGED <<env, now, page, calls, missing_logged, eml_written, li, scanned,
                   clicks, consent, shot_saved, sendVars>>

----------------------------------------------------------------------------
(* main: build_email and the debug copy *)

\* msg = build_email(OUT): reads the screenshot file
BuildEmail ==
    /\ pc = "compose"
    /\ calls' = Bump(calls, "compose")
    /\ \E ok \in BOOLEAN :
         IF ok
         THEN /\ pc' = "save_eml"
              /\ UNCHANGED <<exit_status, exit_msg>>
         ELSE /\ pc' = "exit"
              /\ exit_status' = 1
              /\ exit_msg' = [kind |-> "compose", err |-> NoErr]
    /\ UNCHANGED <<env, now, page, missing_logged, eml_written, capVars, sendVars>>

\* the debug copy is never written
MainSaveEmlSkipped ==
    /\ pc = "save_eml"
    /\ pc' = "send"
    /\ UNCHANGED <<env, now, page, mainVars, capVars, sendVars>>

\* if SAVE_EML: write bytes(msg) to debug.eml
MainSaveEml ==
    /\ pc = "save_eml"
    /\ IF SAVE_EML
       THEN \E ok \in BOOLEAN :
              IF ok
              THEN /\ eml_written' = TRUE
                   /\ pc' = "send"
                   /\ UNCHANGED <<exit_status, exit_msg>>
              ELSE /\ pc' = "exit"
                   /\ exit_status' = 1
                   /\ exit_msg' = [kind |-> "eml", err |-> NoErr]
                   /\ UNCHANGED eml_written
       ELSE /\ pc' = "send"
            /\ UNCHANGED <<eml_written, exit_status, exit_msg>>
    /\ UNCHANGED <<env, now, page, calls, missing_logged, capVars, sendVars>>

----------------------------------------------------------------------------
(* send_email *)

\* send_email up to the loop: mode, attempts = 3, delay = 3, last_err = None
SendEmailStart ==
    /\ pc = "send"
    /\ calls' = Bump(calls, "deliver")
    /\ mode' = ResolveMode
    /\ i' = 1
    /\ delay' = InitialDelay
    /\ last_err' = NoErr
    /\ pc' = "loop"
    /\ UNCHANGED <<env, now, page, exit_status, exit_msg, missing_logged, eml_written,
                   capVars, slept, conn, attempt_modes, delivered, sent_ok>>

\* range(1, attempts)
LoopContinuesOffByOne(k) == k < attempts

\* for i in range(1, attempts + 1)
LoopContinues(k) == k <= attempts

\* the loop head; after the loop, raise SystemExit(f"Invio fallito ... {repr(last_err)}")
SendLoopHead ==
    /\ pc = "loop"
    /\ IF LoopContinues(i)
       THEN /\ pc' = "connect"
            /\ UNCHANGED <<exit_status, exit_msg>>
       ELSE /\ pc' = "exit"
            /\ exit_status' = 1
            /\ exit_msg' = [kind |-> "send_failed", err |-> last_err]
    /\ UNCHANGED <<env, now, page, calls, missing_logged, eml_written, capVars, sendVars>>

\* the STARTTLS branch logs in without upgrading the connection
StepsOfNoUpgrade(m) ==
    IF m = "ssl"
    THEN <<"connect", "login", "send_message">>
    ELSE <<"connect", "ehlo", "login", "send_message">>

\* the calls of one attempt, in the order of the with block of the mode
StepsOf(m) ==
    IF m = "ssl"
    THEN <<"connect", "login", "send_message">>
    ELSE <<"connect", "ehlo", "starttls", "ehlo", "login", "send_message">>

\* the next call of the running attempt; "quit" is the end of the with block
NextOp ==
    IF Len(conn.trace) < Len(StepsOf(mode))
    THEN StepsOf(mode)[Len(conn.trace) + 1]
    ELSE "quit"

\* the handler keeps the first error
HandlerKeepsFirst(step) ==
    /\ last_err' = IF last_err = NoErr THEN [attempt |-> i, step |-> step] ELSE last_err
    /\ slept' = Append(slept, delay)
    /\ delay' = delay * 2
    /\ i' = i + 1
    /\ pc' = "loop"

\* except Exception as e: last_err = e; log; time.sleep(delay); delay *= 2
Handler(step) ==
    /\ last_err' = [attempt |-> i, step |-> step]
    /\ slept' = Append(slept, delay)
    /\ delay' = delay * 2
    /\ i' = i + 1
    /\ pc' = "loop"

\* the with block is left without closing the connection
WithExitLeak(c) == [c EXCEPT !.trace = Append(@, "quit")]

\* SMTP.__exit__: QUIT, then close() in every case
WithExit(c) == [c EXCEPT !.open = FALSE, !.trace = @ \o <<"quit", "close">>]

\* smtplib.SMTP(host, port) or smtplib.SMTP_SSL(host, port, context=ctx)
SmtpConnect ==
    /\ pc = "connect"
    /\ attempt_modes' = Append(attempt_modes, mode)
    /\ \E ok \in BOOLEAN :
         IF ok
         THEN /\ conn' = [open |-> TRUE, tls |-> (mode = "ssl"), trace |-> <<"connect">>]
              /\ pc' = "attempt"
              /\ UNCHANGED <<last_err, slept, delay, i>>
         ELSE /\ conn' = NoConn
              /\ Handler("connect")
    /\ UNCHANGED <<env, now, page, mainVars, capVars, mode, delivered, sent_ok>>

\* a call inside the with block that raises: the block is left, then the handler runs
StepRaises(op) ==
    /\ conn' = WithExit(conn)
    /\ Handler(op)

\* server.ehlo(), before and after starttls
SmtpEhlo ==
    /\ pc = "attempt"
    /\ NextOp = "ehlo"
    /\ \E ok \in BOOLEAN :
         IF ok
         THEN /\ conn' = [conn EXCEPT !.trace = Append(@, "ehlo")]
              /\ UNCHANGED <<pc, last_err, slept, delay, i>>
         ELSE StepRaises("ehlo")
    /\ UNCHANGED <<env, now, page, mainVars, capVars, mode, attempt_modes, delivered,
                   sent_ok>>

\* server.starttls(context=ctx): raises unless the server answers 220
SmtpStartTls ==
    /\ pc = "attempt"
    /\ NextOp = "starttls"
    /\ \E ok \in BOOLEAN :
         IF ok
         THEN /\ conn' = [conn EXCEPT !.tls = TRUE, !.trace = Append(@, "starttls")]
              /\ UNCHANGED <<pc, last_err, slept, delay, i>>
         ELSE StepRaises("starttls")
    /\ UNCHANGED <<env, now, page, mainVars, capVars, mode, attempt_modes, delivered,
                   sent_ok>>

\* server.login(SMTP_USER, SMTP_PASS)
SmtpLogin ==
    /\ pc = "attempt"
    /\ NextOp = "login"
    /\ \E ok \in BOOLEAN :
         IF ok
         THEN /\ conn' = [conn EXCEPT !.trace = Append(@, "login")]
              /\ UNCHANGED <<pc, last_err, slept, delay, i>>
         ELSE StepRaises("login")
    /\ UNCHANGED <<env, now, page, mainVars, capVars, mode, attempt_modes, delivered,
                   sent_ok>>

\* server.send_message(msg): on return the server has accepted the message
SmtpSendMessage ==
    /\ pc = "attempt"
    /\ NextOp = "send_message"
    /\ \E ok \in BOOLEAN :
         IF ok
         THEN /\ conn' = [conn EXCEPT !.trace = Append(@, "send_message")]
              /\ delivered' = delivered + 1
              /\ UNCHANGED <<pc, last_err, slept, delay, i>>
         ELSE /\ StepRaises("send_message")
              /\ UNCHANGED delivered
    /\ UNCHANGED <<env, now, page, mainVars, capVars, mode, attempt_modes, sent_ok>>

\* the end of the with block: QUIT (SMTPResponseException unless the answer is
\* 221), close(); then log "Email inviata" and return
SmtpQuit ==
    /\ pc = "attempt"
    /\ NextOp = "quit"
    /\ conn' = WithExit(conn)
    /\ \E ok \in BOOLEAN :
         IF ok
         THEN /\ sent_ok' = TRUE
              /\ pc' = "exit"
              /\ exit_status' = 0
              /\ UNCHANGED <<last_err, slept, delay, i>>
         ELSE /\ Handler("quit")
              /\ UNCHANGED <<sent_ok, exit_status>>
    /\ UNCHANGED <<env, now, page, exit_msg, calls, missing_logged, eml_written, capVars,
                   mode, attempt_modes, delivered>>

----------------------------------------------------------------------------

Next ==
    \/ MainGate
    \/ MainCheckConfig
    \/ TsLaunch
    \/ TsGoto
    \/ TsScan
    \/ TsClick
    \/ TsSettle
    \/ TsScreenshot
    \/ TsClose
    \/ BuildEmail
    \/ MainSaveEml
    \/ SendEmailStart
    \/ SendLoopHead
    \/ SmtpConnect
    \/ SmtpEhlo
    \/ SmtpStartTls
    \/ SmtpLogin
    \/ SmtpSendMessage
    \/ SmtpQuit

Spec == Init /\ [][Next]_vars

----------------------------------------------------------------------------
(* Properties *)

Range(s) == {s[k] : k \in DOMAIN s}
IsPrefix(s, u) == Len(s) <= Len(u) /\ \A k \in 1..Len(s) : s[k] = u[k]
EnvIs(n, s) == env[n].set /\ env[n].val = s
EnvBlank(n) == ~env[n].set \/ env[n].val = <<>>

RequiredSet == {"SMTP_HOST", "SMTP_USER", "SMTP_PASS", "MAIL_TO"}
AbsentOrEmpty == {n \in RequiredSet : EnvBlank(n)}
ForceSet == EnvIs("FORCE_SEND", <<"1">>)
SaveSet == EnvIs("SAVE_EML", <<"1">>)
NothingRan ==
    /\ calls.capture = 0 /\ calls.compose = 0 /\ calls.deliver = 0
    /\ browser.launches = 0 /\ attempt_modes = <<>> /\ delivered = 0
    /\ ~eml_written /\ ~shot_saved

\* C1: past the gate, a run with a required setting absent or empty never gets
\* beyond the validation: it ends with a non-zero status, the logged list holds
\* exactly the absent or empty settings, each once, and neither the capture,
\* nor the composition, nor a delivery attempt has happened.
C1_MissingConfigAborts ==
    AbsentOrEmpty # {} =>
        /\ pc \in {"main", "check", "exit"}
        /\ calls.validate > 0 =>
              /\ pc = "exit"
              /\ exit_status >= 1
              /\ Range(missing_logged) = AbsentOrEmpty
              /\ Len(missing_logged) = Cardinality(AbsentOrEmpty)
              /\ NothingRan

\* a validated run with an empty (not absent) host and an absent recipient
C1_Witness ==
    /\ pc = "exit" /\ exit_status = 1 /\ calls.validate = 1
    /\ EnvIs("SMTP_HOST", <<>>) /\ ~env["MAIL_TO"].set
    /\ missing_logged = <<"SMTP_HOST", "MAIL_TO">>

\* C2: without FORCE_SEND a run at an hour other than 8 ends with status 0 and
\* has validated, captured, composed and sent nothing; at hour 8 (any minute),
\* or with FORCE_SEND at any hour, the run goes on to the validation.
C2_TimeGate ==
    /\ (~ForceSet /\ now.hour # 8 /\ pc # "main") =>
          /\ pc = "exit" /\ exit_status = 0
          /\ calls.validate = 0 /\ NothingRan
    /\ ((ForceSet \/ now.hour = 8) /\ pc # "main") =>
          (pc = "check" \/ calls.validate = 1)

\* a skipped run at 07:59, FORCE_SEND=0
C2_Witness ==
    /\ pc = "exit" /\ exit_status = 0 /\ calls.validate = 0
    /\ now = [hour |-> 7, minute |-> 59] /\ EnvIs("FORCE_SEND", <<"0">>)

\* C3: there are never more than 3 attempts; when all have failed the run ends
\* with a non-zero status after exactly 3 attempts, the sleeps after the first
\* and second failure are 3 and 6 (each sleep double the one before), and the
\* error named in the exit message is that of attempt 3.
C3_RetryExhaustion ==
    /\ Len(attempt_modes) <= 3
    /\ Len(slept) >= 1 => slept[1] = 3
    /\ \A k \in 2..Len(slept) : slept[k] = 2 * slept[k - 1]
    /\ Len(slept) = 3 => pc \in {"loop", "exit"}
    /\ (pc = "exit" /\ Len(slept) = 3) =>
          /\ exit_msg.kind = "send_failed"
          /\ exit_status >= 1
          /\ ~sent_ok
          /\ Len(attempt_modes) = 3
          /\ slept[1] = 3 /\ slept[2] = 6
          /\ exit_msg.err.attempt = 3
    /\ exit_msg.kind = "send_failed" => Len(slept) = 3

\* three failed attempts, the last one at login
C3_Witness ==
    /\ pc = "exit" /\ exit_msg.kind = "send_failed"
    /\ exit_msg.err = [attempt |-> 3, step |-> "login"]
    /\ Len(attempt_modes) = 3

\* C4: a run whose attempt k is the first to succeed, after k-1 failed attempts,
\* has made exactly k attempts, has delivered exactly one message and ends with
\* status 0.
C4_OneMessagePerRun ==
    sent_ok =>
        /\ pc = "exit" /\ exit_status = 0
        /\ Len(attempt_modes) = Len(slept) + 1
        /\ Len(attempt_modes) <= 3
        /\ delivered = 1

\* C5: after a fatal capture failure the run is over with a non-zero status,
\* the capture ran once, nothing was composed and no delivery was attempted;
\* a delivery attempt is only made after a capture that saved the screenshot
\* and returned.
C5_CaptureFailureStopsRun ==
    /\ calls.capture <= 1
    /\ capture_err # "none" =>
          /\ pc = "exit" /\ exit_status >= 1
          /\ calls.capture = 1 /\ calls.compose = 0 /\ calls.deliver = 0
          /\ attempt_modes = <<>> /\ delivered = 0 /\ ~eml_written
    /\ (attempt_modes # <<>> \/ calls.deliver > 0) =>
          /\ capture_err = "none" /\ shot_saved /\ calls.capture = 1

\* the navigation timed out
C5_Witness == pc = "exit" /\ capture_err = "goto" /\ browser.launches = 1

TsActive == {"ts_goto", "ts_scan", "ts_click", "ts_wait", "ts_shot", "ts_close"}

\* C6: whenever take_screenshot is not running, the browser it launched is not
\* running either, whatever the step at which it stopped.
C6_BrowserReleased == pc \notin TsActive => ~browser.running

\* the screenshot step failed after the browser had been launched
C6_Witness ==
    /\ pc = "exit" /\ capture_err = "screenshot"
    /\ browser.launches = 1 /\ ~browser.running

PortIs465 == EnvIs("SMTP_PORT", <<"4", "6", "5">>)

\* C7: once resolved, the mode is the explicit SMTP_SECURE (ssl or starttls, in
\* any letter case) whatever the port; with SMTP_SECURE absent or empty it is
\* ssl for port 465 and starttls for every other port; every attempt of the
\* run uses that mode.
C7_ModeResolution ==
    /\ attempt_modes # <<>> => mode # "unresolved"
    /\ mode # "unresolved" =>
          /\ (EnvIs("SMTP_SECURE", s_ssl) \/ EnvIs("SMTP_SECURE", s_SSL)) => mode = "ssl"
          /\ (EnvIs("SMTP_SECURE", s_starttls) \/ EnvIs("SMTP_SECURE", s_STARTTLS))
                => mode = "starttls"
          /\ EnvBlank("SMTP_SECURE") => mode = IF PortIs465 THEN "ssl" ELSE "starttls"
          /\ \A k \in DOMAIN attempt_modes : attempt_modes[k] = mode

\* port 465 with SMTP_SECURE=STARTTLS: three attempts, all in starttls mode
C7_Witness ==
    /\ PortIs465 /\ EnvIs("SMTP_SECURE", s_STARTTLS)
    /\ attempt_modes = <<"starttls", "starttls", "starttls">>

\* C8: with SAVE_EML the debug file is written before send_email is entered,
\* so it exists in every run that reaches the delivery, whatever its outcome;
\* without SAVE_EML it is never written.
C8_DebugCopyBeforeSend ==
    /\ (SaveSet /\ (calls.deliver > 0 \/ attempt_modes # <<>>)) => eml_written
    /\ ~SaveSet => ~eml_written

\* the delivery exhausted its attempts and the debug file is there
C8_Witness == pc = "exit" /\ exit_msg.kind = "send_failed" /\ eml_written /\ SaveSet

OrderSsl == <<"connect", "login", "send_message", "quit", "close">>
OrderStarttls == <<"connect", "ehlo", "starttls", "ehlo", "login", "send_message",
                   "quit", "close">>
Order == IF mode = "ssl" THEN OrderSsl ELSE OrderStarttls
Body(s) ==
    IF Len(s) >= 2 /\ s[Len(s)] = "close" THEN SubSeq(s, 1, Len(s) - 2) ELSE s
Has(s, e) == \E k \in DOMAIN s : s[k] = e

\* C9: the calls of an attempt are an initial part of connect, (ehlo, starttls,
\* ehlo,) login, send_message, followed on leaving by quit and close; a login
\* happens on an encrypted connection, in starttls mode after ehlo, starttls,
\* ehlo; in ssl mode the connection is encrypted from the connect; outside an
\* attempt no connection is open.
C9_SmtpOrder ==
    /\ IsPrefix(Body(conn.trace), Order)
    /\ (Has(conn.trace, "close") <=> (~conn.open /\ conn.trace # <<>>))
    /\ Has(conn.trace, "close") =>
          SubSeq(conn.trace, Len(conn.trace) - 1, Len(conn.trace)) = <<"quit", "close">>
    /\ Has(conn.trace, "login") => conn.tls
    /\ (conn.open /\ mode = "ssl") => conn.tls
    /\ (mode = "starttls" /\ conn.tls) =>
          IsPrefix(<<"connect", "ehlo", "starttls">>, conn.trace)
    /\ pc # "attempt" => ~conn.open

\* a starttls attempt that went through and was closed
C9_Witness ==
    /\ sent_ok /\ mode = "starttls" /\ conn.trace = OrderStarttls /\ ~conn.open

\* C10: the labels are scanned in list order; at most one click is issued, on
\* the earliest label with a match, and it ends the scan; after the scan,
\* whether a button was clicked, none was found, or count() or click() raised,
\* the capture is at the settle wait or beyond and no exit of the run is due
\* to the cookie banner.
C10_ConsentBestEffort ==
    /\ Len(clicks) <= 1
    /\ \A k \in DOMAIN scanned : scanned[k] = k
    /\ clicks # <<>> =>
          /\ clicks[1] \in page
          /\ \A l \in page : clicks[1] <= l
          /\ scanned[Len(scanned)] = clicks[1]
    /\ consent = "not_found" => (page = {} /\ Len(scanned) = Len(labels) /\ clicks = <<>>)
    /\ consent = "dismissed" => clicks # <<>>
    /\ consent # "none" =>
          /\ pc \notin {"ts_launch", "ts_goto", "ts_scan", "ts_click"}
          /\ capture_err \in {"none", "settle", "screenshot", "close"}
    /\ (consent = "none" /\ pc = "exit") => ~shot_saved

\* click() raised on the third label and the screenshot was saved all the same
C10_Witness ==
    /\ consent = "failed" /\ clicks = <<3>> /\ page = {3, 5} /\ shot_saved
    /\ pc = "compose"

====
